---------------------------- MODULE Spec2Model ----------------------------
(***************************************************************************)
(* Model of deepseek_backend.py: the country-facts HTTP service.           *)
(*                                                                         *)
(* A Python string is a sequence of characters; a character is a           *)
(* one-character string, and a non-ASCII character is written by its code  *)
(* point ("U+2022" is the bullet, "U+00ED" is i-acute).                    *)
(***************************************************************************)
EXTENDS Integers, Sequences, FiniteSets, TLC

VARIABLES
    fn,            \* unit level: the function under call
    arg,           \* unit level: its arguments
    ret,           \* unit level: its return value once called
    pc,            \* service: per request, the handler's position
    endpoint,      \* service: per request, the route
    body,          \* service: per request, what request.get_json() yields
    country_name,  \* service: per request, the handler's local country_name
    question,      \* service: per request, the handler's local question
    facts,         \* service: per request, the handler's local facts
    model_used,    \* service: per request, the handler's local model_used
    response,      \* service: per request, the (status, payload) sent
    invoked,       \* service: per request, the strategy functions entered
    fault,         \* service: per request, the collaborator that raises
    ollama         \* environment: what the local model endpoint answers

vars == <<fn, arg, ret, pc, endpoint, body, country_name, question, facts,
          model_used, response, invoked, fault, ollama>>

unitVars == <<fn, arg, ret>>
serviceVars == <<pc, endpoint, body, country_name, question, facts,
                 model_used, response, invoked, fault, ollama>>

(***************************************************************************)
(* Characters and the str methods the program uses.                        *)
(***************************************************************************)
Digit == {"0", "1", "2", "3", "4", "5", "6", "7", "8", "9"}

Space == {" ", "\n", "\t", "\r"}

Upper == <<"A", "B", "C", "D", "E", "F", "G", "H", "I", "J", "K", "L", "M",
           "N", "O", "P", "Q", "R", "S", "T", "U", "V", "W", "X", "Y", "Z">>

Lower == <<"a", "b", "c", "d", "e", "f", "g", "h", "i", "j", "k", "l", "m",
           "n", "o", "p", "q", "r", "s", "t", "u", "v", "w", "x", "y", "z">>

\* str.lower() on one character
LowerChar(c) ==
    IF \E i \in 1..26 : Upper[i] = c
    THEN Lower[CHOOSE i \in 1..26 : Upper[i] = c]
    ELSE c

\* str.lower()
lower(s) == [i \in 1..Len(s) |-> LowerChar(s[i])]

\* the position after the longest run of characters of class S that starts at p
RECURSIVE RunEnd(_, _, _)
RunEnd(t, p, S) ==
    IF p <= Len(t) /\ t[p] \in S THEN RunEnd(t, p + 1, S) ELSE p

\* the position before the longest run of whitespace that ends at p
RECURSIVE RunStart(_, _)
RunStart(t, p) ==
    IF p >= 1 /\ t[p] \in Space THEN RunStart(t, p - 1) ELSE p

\* str.strip()
strip(s) == SubSeq(s, RunEnd(s, 1, Space), RunStart(s, Len(s)))

\* str.replace('\n', ' ')
replace_newlines(s) == [i \in 1..Len(s) |-> IF s[i] = "\n" THEN " " ELSE s[i]]

\* str.endswith('.')
endswith_dot(s) == Len(s) > 0 /\ s[Len(s)] = "."

\* x in s, for strings: x occurs in s as a substring
Contains(s, x) ==
    \E i \in 1..(Len(s) - Len(x) + 1) : SubSeq(s, i, i + Len(x) - 1) = x

(***************************************************************************)
(* The two list patterns of parse_facts_from_response, matched as Python's *)
(* backtracking re engine matches them under re.MULTILINE | re.DOTALL.     *)
(*   numbered: (\d+)\.\s*([^:\n]+?)[:.]?\s*(.+?)(?=\d+\.|$)                *)
(*   bullet:   [U+2022\-\*]\s*([^:\n]+?)[:.]?\s*(.+?)(?=[U+2022\-\*]|$)    *)
(* A match is [ok, ts, te, cs, ce]: the title is t[ts..te-1], the content  *)
(* t[cs..ce-1], and the match ends before ce.                              *)
(***************************************************************************)
BulletMark == {"U+2022", "-", "*"}

NoMatch == [ok |-> FALSE, start |-> 0, ts |-> 0, te |-> 0, cs |-> 0, ce |-> 0]

\* backtracking: the first alternative if it matches, else the next one
OrElse(m, alt) == IF m.ok THEN m ELSE alt

\* the least number of a non-empty set of numbers
Min(S) == CHOOSE x \in S : \A y \in S : x <= y

\* the position after a digit run from i that ends at e, if a dot follows
AfterNumber(t, i, e) ==
    IF e > i /\ e <= Len(t) /\ t[e] = "." THEN e + 1 ELSE 0

\* the position after the marker that opens a match at i, or 0:
\* (\d+)\. or [U+2022\-\*]
MarkerEnd(kind, t, i) ==
    IF kind = "numbered"
    THEN AfterNumber(t, i, RunEnd(t, i, Digit))
    ELSE IF i <= Len(t) /\ t[i] \in BulletMark THEN i + 1 ELSE 0

\* the lookahead that ends the content: (?=\d+\.|$) or (?=[U+2022\-\*]|$);
\* under re.MULTILINE, $ holds at the end of the text and before a newline
Lookahead(kind, t, p) ==
    \/ p = Len(t) + 1
    \/ p <= Len(t) /\ t[p] = "\n"
    \/ p <= Len(t) /\ MarkerEnd(kind, t, p) # 0

\* (.+?): the content takes the fewest characters, at least one, that bring
\* it to a lookahead position; q is the first end tried, and the result is
\* the end found, or 0
ContentEnd(kind, t, q) ==
    IF q > Len(t) + 1 THEN 0
    ELSE Min({x \in q..(Len(t) + 1) : Lookahead(kind, t, x)})

\* the content t[cs..ce-1], if an end was found
ContentMatch(cs, ce) ==
    IF ce # 0
    THEN [ok |-> TRUE, start |-> 0, ts |-> 0, te |-> 0, cs |-> cs, ce |-> ce]
    ELSE NoMatch

\* the second \s*: greedy from p up to s, giving whitespace back one
\* character at a time
RECURSIVE SecondSpace(_, _, _, _)
SecondSpace(kind, t, p, s) ==
    IF s < p THEN NoMatch
    ELSE OrElse(ContentMatch(s, ContentEnd(kind, t, s + 1)),
                SecondSpace(kind, t, p, s - 1))

\* [:.]?: where the rest may go on from e, the position after the title;
\* the separator is taken first and given back if the rest cannot match
AfterSeparator(t, e) ==
    IF e <= Len(t) /\ t[e] \in {":", "."} THEN <<e + 1, e>> ELSE <<e>>

\* [:.]?\s*(.+?)(?=...) from the k-th of the positions ps
RECURSIVE AfterTitle(_, _, _, _)
AfterTitle(kind, t, ps, k) ==
    IF k > Len(ps) THEN NoMatch
    ELSE OrElse(SecondSpace(kind, t, ps[k], RunEnd(t, ps[k], Space)),
                AfterTitle(kind, t, ps, k + 1))

\* the title t[b..e-1] put before what matched after it
WithTitle(b, e, rest) ==
    IF rest.ok
    THEN [ok |-> TRUE, start |-> 0, ts |-> b, te |-> e,
          cs |-> rest.cs, ce |-> rest.ce]
    ELSE NoMatch

\* ([^:\n]+?): the title starts at b and takes the fewest characters, at
\* least one, that let the rest match; e is the end being tried
RECURSIVE Title(_, _, _, _)
Title(kind, t, b, e) ==
    IF e - 1 > Len(t) \/ t[e - 1] \in {":", "\n"} THEN NoMatch
    ELSE OrElse(WithTitle(b, e, AfterTitle(kind, t, AfterSeparator(t, e), 1)),
                Title(kind, t, b, e + 1))

\* the first \s*: greedy from a up to b, giving whitespace back one
\* character at a time
RECURSIVE FirstSpace(_, _, _, _)
FirstSpace(kind, t, a, b) ==
    IF b < a THEN NoMatch
    ELSE OrElse(Title(kind, t, b, b + 1), FirstSpace(kind, t, a, b - 1))

\* the rest of the pattern from a, the position after the marker
AfterMarker(kind, t, a) ==
    IF a = 0 THEN NoMatch
    ELSE FirstSpace(kind, t, a, RunEnd(t, a, Space))

\* the match of the pattern that starts at i, if there is one
MatchAt(kind, t, i) ==
    [AfterMarker(kind, t, MarkerEnd(kind, t, i)) EXCEPT !.start = i]

\* the (title, content) groups of a match
Groups(t, m) ==
    [title |-> SubSeq(t, m.ts, m.te - 1), content |-> SubSeq(t, m.cs, m.ce - 1)]

\* re.findall: the non-overlapping matches, leftmost first, scanning from i;
\* ms are the matches that start at i or later
RECURSIVE FindAllFrom(_, _, _)
Leftmost(ms) == CHOOSE m \in ms : \A o \in ms : m.start <= o.start

TakeMatch(kind, t, m) == <<Groups(t, m)>> \o FindAllFrom(kind, t, m.ce)

TakeLeftmost(kind, t, ms) ==
    IF ms = {} THEN <<>> ELSE TakeMatch(kind, t, Leftmost(ms))

FindAllFrom(kind, t, i) ==
    TakeLeftmost(kind, t,
                 {m \in {MatchAt(kind, t, j) : j \in i..Len(t)} : m.ok})

findall(kind, t) == FindAllFrom(kind, t, 1)

\* re.split(r'[.!?]+', text): the pieces between runs of terminators; start
\* is where the current piece begins
Terminator == {".", "!", "?"}

RECURSIVE SplitFrom(_, _)
SplitFrom(t, start) ==
    LET stops == {j \in start..Len(t) : t[j] \in Terminator}
    IN  IF stops = {} THEN <<SubSeq(t, start, Len(t))>>
        ELSE <<SubSeq(t, start, Min(stops) - 1)>>
             \o SplitFrom(t, RunEnd(t, Min(stops), Terminator))

split_sentences(t) == SplitFrom(t, 1)

\* the length a stripped fragment must exceed to count as a sentence
MinSentenceLen == 20

\* [s.strip() for s in re.split(...) if len(s.strip()) > 20]
StripAll(kept) == [i \in 1..Len(kept) |-> strip(kept[i])]

sentences(t) ==
    StripAll(SelectSeq(split_sentences(t),
                       LAMBDA s : Len(strip(s)) > MinSentenceLen))

\* matches[:3], sentences[:3], facts[:3]
FirstThree(s) == SubSeq(s, 1, IF Len(s) < 3 THEN Len(s) ELSE 3)

\* str(i + 1), for one-digit numbers (enumerate() of a slice of three gives
\* 1 to 3)
DigitOf(i) == <<"1", "2", "3", "4", "5", "6", "7", "8", "9">>[i]

\* the fact built from one match of a list pattern: title.strip() and
\* content.strip().replace('\n', ' ')
fact_of_match(m) ==
    [title |-> strip(m.title), content |-> replace_newlines(strip(m.content))]

\* for i, (num, title, content) in enumerate(matches[:3]): facts.append(...)
FactsOf(ms) == [i \in 1..Len(ms) |-> fact_of_match(ms[i])]

list_facts(matches) == FactsOf(FirstThree(matches))

\* {"title": f"Interesting Fact {i+1}",
\*  "content": sentence + "." if not sentence.endswith('.') else sentence}
sentence_fact(i, sentence) ==
    [title |-> <<"I","n","t","e","r","e","s","t","i","n","g"," ",
                 "F","a","c","t"," ">> \o <<DigitOf(i)>>,
     content |-> IF ~endswith_dot(sentence) THEN sentence \o <<".">>
                 ELSE sentence]

\* the facts built from the sentences ss
facts_of_sentences(ss) == [i \in 1..Len(ss) |-> sentence_fact(i, ss[i])]

sentence_facts(t) == facts_of_sentences(FirstThree(sentences(t)))

\* if matches: the facts of the matches, else what the else branch gives
IfMatches(matches, otherwise) ==
    IF matches # <<>> THEN list_facts(matches) ELSE otherwise

\* the facts the matching step produces: numbered, else bullet, else sentences
matched_facts(t) ==
    IfMatches(findall("numbered", t),
              IfMatches(findall("bullet", t), sentence_facts(t)))

\* {"title": f"About {country_name}",
\*  "content": f"{country_name} has a rich history and culture worth exploring."}
filler_fact(c) ==
    [title |-> <<"A","b","o","u","t"," ">> \o c,
     content |-> c \o <<" ","h","a","s"," ","a"," ","r","i","c","h"," ",
                        "h","i","s","t","o","r","y"," ","a","n","d"," ",
                        "c","u","l","t","u","r","e"," ","w","o","r","t","h"," ",
                        "e","x","p","l","o","r","i","n","g",".">>]

\* a slip: an if in place of the while
pad_once(fs, c) == IF Len(fs) < 3 THEN Append(fs, filler_fact(c)) ELSE fs

\* while len(facts) < 3: facts.append(filler)
RECURSIVE pad(_, _)
pad(fs, c) == IF Len(fs) < 3 THEN pad(Append(fs, filler_fact(c)), c) ELSE fs

parse_facts_from_response(t, c) == FirstThree(pad(matched_facts(t), c))

(***************************************************************************)
(* The knowledge base, the chat answers and the local model call.         *)
(***************************************************************************)
\* country_facts['japan']
japan_facts ==
    \* Vending Machine Paradise: Japan has over 5 million vending machines, selli...
    <<[title |-> <<"V","e","n","d","i","n","g"," ","M","a","c","h","i","n",
          "e"," ","P","a","r","a","d","i","s","e">>,
       content |-> <<"J","a","p","a","n"," ","h","a","s"," ","o","v","e","r",
          " ","5"," ","m","i","l","l","i","o","n"," ","v","e","n","d","i","n",
          "g"," ","m","a","c","h","i","n","e","s",","," ","s","e","l","l","i",
          "n","g"," ","e","v","e","r","y","t","h","i","n","g"," ","f","r","o",
          "m"," ","h","o","t"," ","c","o","f","f","e","e"," ","t","o"," ","f",
          "r","e","s","h"," ","f","l","o","w","e","r","s"," ","-"," ","t","h",
          "a","t","'","s"," ","o","n","e"," ","v","e","n","d","i","n","g"," ",
          "m","a","c","h","i","n","e"," ","f","o","r"," ","e","v","e","r","y",
          " ","2","5"," ","p","e","o","p","l","e","!">>],
    \* Ancient Meets Modern: Japan has the world's oldest continuous monarchy...
      [title |-> <<"A","n","c","i","e","n","t"," ","M","e","e","t","s"," ",
          "M","o","d","e","r","n">>,
       content |-> <<"J","a","p","a","n"," ","h","a","s"," ","t","h","e"," ",
          "w","o","r","l","d","'","s"," ","o","l","d","e","s","t"," ","c","o",
          "n","t","i","n","u","o","u","s"," ","m","o","n","a","r","c","h","y",
          ","," ","w","i","t","h"," ","E","m","p","e","r","o","r"," ","N","a",
          "r","u","h","i","t","o"," ","b","e","i","n","g"," ","t","h","e"," ",
          "1","2","6","t","h"," ","e","m","p","e","r","o","r"," ","i","n"," ",
          "a","n"," ","u","n","b","r","o","k","e","n"," ","l","i","n","e"," ",
          "d","a","t","i","n","g"," ","b","a","c","k"," ","o","v","e","r"," ",
          "2",",","6","0","0"," ","y","e","a","r","s",".">>],
    \* Island Nation Complexity: Japan consists of 6,852 islands, though only abo...
      [title |-> <<"I","s","l","a","n","d"," ","N","a","t","i","o","n"," ",
          "C","o","m","p","l","e","x","i","t","y">>,
       content |-> <<"J","a","p","a","n"," ","c","o","n","s","i","s","t","s",
          " ","o","f"," ","6",",","8","5","2"," ","i","s","l","a","n","d","s",
          ","," ","t","h","o","u","g","h"," ","o","n","l","y"," ","a","b","o",
          "u","t"," ","4","3","0"," ","a","r","e"," ","i","n","h","a","b","i",
          "t","e","d",","," ","m","a","k","i","n","g"," ","i","t"," ","o","n",
          "e"," ","o","f"," ","t","h","e"," ","m","o","s","t"," ","g","e","o",
          "g","r","a","p","h","i","c","a","l","l","y"," ","c","o","m","p","l",
          "e","x"," ","c","o","u","n","t","r","i","e","s"," ","i","n"," ","t",
          "h","e"," ","w","o","r","l","d",".">>]>>

\* country_facts['france']
france_facts ==
    \* Cheese Champion: France produces over 350 types of cheese, and it...
    <<[title |-> <<"C","h","e","e","s","e"," ","C","h","a","m","p","i","o",
          "n">>,
       content |-> <<"F","r","a","n","c","e"," ","p","r","o","d","u","c","e",
          "s"," ","o","v","e","r"," ","3","5","0"," ","t","y","p","e","s"," ",
          "o","f"," ","c","h","e","e","s","e",","," ","a","n","d"," ","i","t",
          "'","s"," ","s","a","i","d"," ","t","h","a","t"," ","y","o","u"," ",
          "c","o","u","l","d"," ","e","a","t"," ","a"," ","d","i","f","f","e",
          "r","e","n","t"," ","F","r","e","n","c","h"," ","c","h","e","e","s",
          "e"," ","e","v","e","r","y"," ","d","a","y"," ","f","o","r"," ","a",
          "n"," ","e","n","t","i","r","e"," ","y","e","a","r","!">>],
    \* Most Visited Country: France is the world's most visited country, welc...
      [title |-> <<"M","o","s","t"," ","V","i","s","i","t","e","d"," ","C",
          "o","u","n","t","r","y">>,
       content |-> <<"F","r","a","n","c","e"," ","i","s"," ","t","h","e"," ",
          "w","o","r","l","d","'","s"," ","m","o","s","t"," ","v","i","s","i",
          "t","e","d"," ","c","o","u","n","t","r","y",","," ","w","e","l","c",
          "o","m","i","n","g"," ","o","v","e","r"," ","8","9"," ","m","i","l",
          "l","i","o","n"," ","t","o","u","r","i","s","t","s"," ","a","n","n",
          "u","a","l","l","y"," ","-"," ","m","o","r","e"," ","t","h","a","n",
          " ","i","t","s"," ","e","n","t","i","r","e"," ","p","o","p","u","l",
          "a","t","i","o","n","!">>],
    \* Time Zone Record: France spans 12 different time zones, more than ...
      [title |-> <<"T","i","m","e"," ","Z","o","n","e"," ","R","e","c","o",
          "r","d">>,
       content |-> <<"F","r","a","n","c","e"," ","s","p","a","n","s"," ","1",
          "2"," ","d","i","f","f","e","r","e","n","t"," ","t","i","m","e"," ",
          "z","o","n","e","s",","," ","m","o","r","e"," ","t","h","a","n"," ",
          "a","n","y"," ","o","t","h","e","r"," ","c","o","u","n","t","r","y",
          ","," ","d","u","e"," ","t","o"," ","i","t","s"," ","o","v","e","r",
          "s","e","a","s"," ","t","e","r","r","i","t","o","r","i","e","s"," ",
          "a","r","o","u","n","d"," ","t","h","e"," ","g","l","o","b","e",
          ".">>]>>

\* country_facts['brazil']
brazil_facts ==
    \* Amazon Powerhouse: Brazil contains about 60% of the Amazon rainfore...
    <<[title |-> <<"A","m","a","z","o","n"," ","P","o","w","e","r","h","o",
          "u","s","e">>,
       content |-> <<"B","r","a","z","i","l"," ","c","o","n","t","a","i","n",
          "s"," ","a","b","o","u","t"," ","6","0","%"," ","o","f"," ","t","h",
          "e"," ","A","m","a","z","o","n"," ","r","a","i","n","f","o","r","e",
          "s","t",","," ","w","h","i","c","h"," ","p","r","o","d","u","c","e",
          "s"," ","a","p","p","r","o","x","i","m","a","t","e","l","y"," ","2",
          "0","%"," ","o","f"," ","t","h","e"," ","w","o","r","l","d","'","s",
          " ","o","x","y","g","e","n",".">>],
    \* Coffee King: Brazil has been the world's largest coffee produ...
      [title |-> <<"C","o","f","f","e","e"," ","K","i","n","g">>,
       content |-> <<"B","r","a","z","i","l"," ","h","a","s"," ","b","e","e",
          "n"," ","t","h","e"," ","w","o","r","l","d","'","s"," ","l","a","r",
          "g","e","s","t"," ","c","o","f","f","e","e"," ","p","r","o","d","u",
          "c","e","r"," ","f","o","r"," ","o","v","e","r"," ","1","5","0"," ",
          "y","e","a","r","s",","," ","p","r","o","d","u","c","i","n","g"," ",
          "a","b","o","u","t"," ","o","n","e","-","t","h","i","r","d"," ","o",
          "f"," ","a","l","l"," ","c","o","f","f","e","e"," ","g","l","o","b",
          "a","l","l","y",".">>],
    \* Carnival Capital: Rio de Janeiro's Carnival is the world's largest...
      [title |-> <<"C","a","r","n","i","v","a","l"," ","C","a","p","i","t",
          "a","l">>,
       content |-> <<"R","i","o"," ","d","e"," ","J","a","n","e","i","r","o",
          "'","s"," ","C","a","r","n","i","v","a","l"," ","i","s"," ","t","h",
          "e"," ","w","o","r","l","d","'","s"," ","l","a","r","g","e","s","t",
          " ","c","a","r","n","i","v","a","l"," ","c","e","l","e","b","r","a",
          "t","i","o","n",","," ","a","t","t","r","a","c","t","i","n","g"," ",
          "o","v","e","r"," ","2"," ","m","i","l","l","i","o","n"," ","p","e",
          "o","p","l","e"," ","d","a","i","l","y"," ","d","u","r","i","n","g",
          " ","t","h","e"," ","f","e","s","t","i","v","a","l",".">>]>>

\* country_facts['germany']
germany_facts ==
    \* Engineering Excellence: Germany is home to the Autobahn highway system, ...
    <<[title |-> <<"E","n","g","i","n","e","e","r","i","n","g"," ","E","x",
          "c","e","l","l","e","n","c","e">>,
       content |-> <<"G","e","r","m","a","n","y"," ","i","s"," ","h","o","m",
          "e"," ","t","o"," ","t","h","e"," ","A","u","t","o","b","a","h","n",
          " ","h","i","g","h","w","a","y"," ","s","y","s","t","e","m",","," ",
          "p","a","r","t","s"," ","o","f"," ","w","h","i","c","h"," ","h","a",
          "v","e"," ","n","o"," ","s","p","e","e","d"," ","l","i","m","i","t",
          "s",","," ","a","n","d"," ","t","h","e"," ","c","o","u","n","t","r",
          "y"," ","p","r","o","d","u","c","e","s"," ","s","o","m","e"," ","o",
          "f"," ","t","h","e"," ","w","o","r","l","d","'","s"," ","m","o","s",
          "t"," ","a","d","v","a","n","c","e","d"," ","a","u","t","o","m","o",
          "b","i","l","e","s",".">>],
    \* Festival Culture: Germany hosts Oktoberfest, the world's largest b...
      [title |-> <<"F","e","s","t","i","v","a","l"," ","C","u","l","t","u",
          "r","e">>,
       content |-> <<"G","e","r","m","a","n","y"," ","h","o","s","t","s"," ",
          "O","k","t","o","b","e","r","f","e","s","t",","," ","t","h","e"," ",
          "w","o","r","l","d","'","s"," ","l","a","r","g","e","s","t"," ","b",
          "e","e","r"," ","f","e","s","t","i","v","a","l",","," ","w","h","e",
          "r","e"," ","o","v","e","r"," ","6"," ","m","i","l","l","i","o","n",
          " ","p","e","o","p","l","e"," ","c","o","n","s","u","m","e"," ","a",
          "r","o","u","n","d"," ","7"," ","m","i","l","l","i","o","n"," ","l",
          "i","t","e","r","s"," ","o","f"," ","b","e","e","r"," ","a","n","n",
          "u","a","l","l","y",".">>],
    \* Innovation Hub: Germany has produced more Nobel Prize winners in...
      [title |-> <<"I","n","n","o","v","a","t","i","o","n"," ","H","u","b">>,
       content |-> <<"G","e","r","m","a","n","y"," ","h","a","s"," ","p","r",
          "o","d","u","c","e","d"," ","m","o","r","e"," ","N","o","b","e","l",
          " ","P","r","i","z","e"," ","w","i","n","n","e","r","s"," ","i","n",
          " ","s","c","i","e","n","c","e"," ","t","h","a","n"," ","a","n","y",
          " ","o","t","h","e","r"," ","c","o","u","n","t","r","y"," ","e","x",
          "c","e","p","t"," ","t","h","e"," ","U","n","i","t","e","d"," ","S",
          "t","a","t","e","s",","," ","w","i","t","h"," ","o","v","e","r"," ",
          "1","0","0"," ","l","a","u","r","e","a","t","e","s",".">>]>>

\* country_facts['italy']
italy_facts ==
    \* Pasta Perfection: Italy has over 350 different pasta shapes, each ...
    <<[title |-> <<"P","a","s","t","a"," ","P","e","r","f","e","c","t","i",
          "o","n">>,
       content |-> <<"I","t","a","l","y"," ","h","a","s"," ","o","v","e","r",
          " ","3","5","0"," ","d","i","f","f","e","r","e","n","t"," ","p","a",
          "s","t","a"," ","s","h","a","p","e","s",","," ","e","a","c","h"," ",
          "d","e","s","i","g","n","e","d"," ","t","o"," ","p","a","i","r"," ",
          "p","e","r","f","e","c","t","l","y"," ","w","i","t","h"," ","s","p",
          "e","c","i","f","i","c"," ","s","a","u","c","e","s"," ","a","n","d",
          " ","r","e","g","i","o","n","a","l"," ","i","n","g","r","e","d","i",
          "e","n","t","s",".">>],
    \* UNESCO Champion: Italy has the most UNESCO World Heritage Sites o...
      [title |-> <<"U","N","E","S","C","O"," ","C","h","a","m","p","i","o",
          "n">>,
       content |-> <<"I","t","a","l","y"," ","h","a","s"," ","t","h","e"," ",
          "m","o","s","t"," ","U","N","E","S","C","O"," ","W","o","r","l","d",
          " ","H","e","r","i","t","a","g","e"," ","S","i","t","e","s"," ","o",
          "f"," ","a","n","y"," ","c","o","u","n","t","r","y"," ","w","i","t",
          "h"," ","5","8"," ","s","i","t","e","s",","," ","s","h","o","w","c",
          "a","s","i","n","g"," ","i","t","s"," ","i","n","c","r","e","d","i",
          "b","l","e"," ","h","i","s","t","o","r","i","c","a","l"," ","a","n",
          "d"," ","c","u","l","t","u","r","a","l"," ","w","e","a","l","t","h",
          ".">>],
    \* Volcano Land: Italy has three active volcanoes: Mount Etna, St...
      [title |-> <<"V","o","l","c","a","n","o"," ","L","a","n","d">>,
       content |-> <<"I","t","a","l","y"," ","h","a","s"," ","t","h","r","e",
          "e"," ","a","c","t","i","v","e"," ","v","o","l","c","a","n","o","e",
          "s",":"," ","M","o","u","n","t"," ","E","t","n","a",","," ","S","t",
          "r","o","m","b","o","l","i",","," ","a","n","d"," ","M","o","u","n",
          "t"," ","V","e","s","u","v","i","u","s",","," ","w","i","t","h"," ",
          "M","o","u","n","t"," ","E","t","n","a"," ","b","e","i","n","g"," ",
          "E","u","r","o","p","e","'","s"," ","m","o","s","t"," ","a","c","t",
          "i","v","e"," ","v","o","l","c","a","n","o",".">>]>>

\* country_facts['spain']
spain_facts ==
    \* Flamenco Heritage: Spain is the birthplace of flamenco, a passionat...
    <<[title |-> <<"F","l","a","m","e","n","c","o"," ","H","e","r","i","t",
          "a","g","e">>,
       content |-> <<"S","p","a","i","n"," ","i","s"," ","t","h","e"," ","b",
          "i","r","t","h","p","l","a","c","e"," ","o","f"," ","f","l","a","m",
          "e","n","c","o",","," ","a"," ","p","a","s","s","i","o","n","a","t",
          "e"," ","a","r","t"," ","f","o","r","m"," ","c","o","m","b","i","n",
          "i","n","g"," ","g","u","i","t","a","r",","," ","s","i","n","g","i",
          "n","g",","," ","d","a","n","c","i","n","g",","," ","a","n","d"," ",
          "h","a","n","d","c","l","a","p","s"," ","t","h","a","t"," ","o","r",
          "i","g","i","n","a","t","e","d"," ","i","n"," ","A","n","d","a","l",
          "u","s","i","a",".">>],
    \* Architectural Wonders: Spain features incredible architecture from the ...
      [title |-> <<"A","r","c","h","i","t","e","c","t","u","r","a","l"," ",
          "W","o","n","d","e","r","s">>,
       content |-> <<"S","p","a","i","n"," ","f","e","a","t","u","r","e","s",
          " ","i","n","c","r","e","d","i","b","l","e"," ","a","r","c","h","i",
          "t","e","c","t","u","r","e"," ","f","r","o","m"," ","t","h","e"," ",
          "S","a","g","r","a","d","a"," ","F","a","m","U+00ED","l","i","a",
          " ","(","s","t","i","l","l"," ","u","n","d","e","r"," ","c","o","n",
          "s","t","r","u","c","t","i","o","n"," ","a","f","t","e","r"," ","1",
          "4","0","+"," ","y","e","a","r","s",")"," ","t","o"," ","t","h","e",
          " ","A","l","h","a","m","b","r","a","'","s"," ","i","n","t","r","i",
          "c","a","t","e"," ","I","s","l","a","m","i","c"," ","a","r","t",
          ".">>],
    \* Siesta Tradition: The Spanish siesta tradition exists because Spai...
      [title |-> <<"S","i","e","s","t","a"," ","T","r","a","d","i","t","i",
          "o","n">>,
       content |-> <<"T","h","e"," ","S","p","a","n","i","s","h"," ","s","i",
          "e","s","t","a"," ","t","r","a","d","i","t","i","o","n"," ","e","x",
          "i","s","t","s"," ","b","e","c","a","u","s","e"," ","S","p","a","i",
          "n"," ","i","s"," ","g","e","o","g","r","a","p","h","i","c","a","l",
          "l","y"," ","p","o","s","i","t","i","o","n","e","d"," ","t","o"," ",
          "h","a","v","e"," ","t","h","e"," ","s","a","m","e"," ","t","i","m",
          "e"," ","z","o","n","e"," ","a","s"," ","C","e","n","t","r","a","l",
          " ","E","u","r","o","p","e",","," ","m","a","k","i","n","g"," ","m",
          "i","d","d","a","y"," ","e","x","t","r","e","m","e","l","y"," ","h",
          "o","t",".">>]>>

\* country_facts['canada']
canada_facts ==
    \* Freshwater Giant: Canada has more freshwater than any other countr...
    <<[title |-> <<"F","r","e","s","h","w","a","t","e","r"," ","G","i","a",
          "n","t">>,
       content |-> <<"C","a","n","a","d","a"," ","h","a","s"," ","m","o","r",
          "e"," ","f","r","e","s","h","w","a","t","e","r"," ","t","h","a","n",
          " ","a","n","y"," ","o","t","h","e","r"," ","c","o","u","n","t","r",
          "y",","," ","c","o","n","t","a","i","n","i","n","g"," ","a","b","o",
          "u","t"," ","2","0","%"," ","o","f"," ","t","h","e"," ","w","o","r",
          "l","d","'","s"," ","f","r","e","s","h"," ","w","a","t","e","r"," ",
          "i","n"," ","i","t","s"," ","l","a","k","e","s"," ","a","n","d"," ",
          "r","i","v","e","r","s",".">>],
    \* Maple Syrup Monopoly: Canada produces 71% of the world's maple syrup, ...
      [title |-> <<"M","a","p","l","e"," ","S","y","r","u","p"," ","M","o",
          "n","o","p","o","l","y">>,
       content |-> <<"C","a","n","a","d","a"," ","p","r","o","d","u","c","e",
          "s"," ","7","1","%"," ","o","f"," ","t","h","e"," ","w","o","r","l",
          "d","'","s"," ","m","a","p","l","e"," ","s","y","r","u","p",","," ",
          "w","i","t","h"," ","Q","u","e","b","e","c"," ","a","l","o","n","e",
          " ","a","c","c","o","u","n","t","i","n","g"," ","f","o","r"," ","9",
          "0","%"," ","o","f"," ","C","a","n","a","d","a","'","s"," ","p","r",
          "o","d","u","c","t","i","o","n",".">>],
    \* Coastline Champion: Canada has the world's longest coastline at 202,...
      [title |-> <<"C","o","a","s","t","l","i","n","e"," ","C","h","a","m",
          "p","i","o","n">>,
       content |-> <<"C","a","n","a","d","a"," ","h","a","s"," ","t","h","e",
          " ","w","o","r","l","d","'","s"," ","l","o","n","g","e","s","t"," ",
          "c","o","a","s","t","l","i","n","e"," ","a","t"," ","2","0","2",",",
          "0","8","0"," ","k","i","l","o","m","e","t","e","r","s",","," ","l",
          "o","n","g","e","r"," ","t","h","a","n"," ","t","h","e"," ","c","o",
          "a","s","t","l","i","n","e","s"," ","o","f"," ","a","l","l"," ","o",
          "t","h","e","r"," ","c","o","u","n","t","r","i","e","s"," ","c","o",
          "m","b","i","n","e","d","!">>]>>

\* country_facts['australia']
australia_facts ==
    \* Unique Wildlife: Australia is home to more than 80% of animals an...
    <<[title |-> <<"U","n","i","q","u","e"," ","W","i","l","d","l","i","f",
          "e">>,
       content |-> <<"A","u","s","t","r","a","l","i","a"," ","i","s"," ","h",
          "o","m","e"," ","t","o"," ","m","o","r","e"," ","t","h","a","n"," ",
          "8","0","%"," ","o","f"," ","a","n","i","m","a","l","s"," ","a","n",
          "d"," ","p","l","a","n","t","s"," ","t","h","a","t"," ","e","x","i",
          "s","t"," ","n","o","w","h","e","r","e"," ","e","l","s","e"," ","o",
          "n"," ","E","a","r","t","h",","," ","i","n","c","l","u","d","i","n",
          "g"," ","k","a","n","g","a","r","o","o","s",","," ","k","o","a","l",
          "a","s",","," ","a","n","d"," ","t","h","e"," ","p","l","a","t","y",
          "p","u","s",".">>],
    \* Massive Country: Australia is the 6th largest country by land are...
      [title |-> <<"M","a","s","s","i","v","e"," ","C","o","u","n","t","r",
          "y">>,
       content |-> <<"A","u","s","t","r","a","l","i","a"," ","i","s"," ","t",
          "h","e"," ","6","t","h"," ","l","a","r","g","e","s","t"," ","c","o",
          "u","n","t","r","y"," ","b","y"," ","l","a","n","d"," ","a","r","e",
          "a"," ","b","u","t"," ","h","a","s"," ","a"," ","p","o","p","u","l",
          "a","t","i","o","n"," ","o","f"," ","o","n","l","y"," ","2","6"," ",
          "m","i","l","l","i","o","n"," ","p","e","o","p","l","e",","," ","m",
          "a","k","i","n","g"," ","i","t"," ","o","n","e"," ","o","f"," ","t",
          "h","e"," ","l","e","a","s","t"," ","d","e","n","s","e","l","y"," ",
          "p","o","p","u","l","a","t","e","d"," ","c","o","u","n","t","r","i",
          "e","s",".">>],
    \* Great Barrier Reef: The Great Barrier Reef is the world's largest co...
      [title |-> <<"G","r","e","a","t"," ","B","a","r","r","i","e","r"," ",
          "R","e","e","f">>,
       content |-> <<"T","h","e"," ","G","r","e","a","t"," ","B","a","r","r",
          "i","e","r"," ","R","e","e","f"," ","i","s"," ","t","h","e"," ","w",
          "o","r","l","d","'","s"," ","l","a","r","g","e","s","t"," ","c","o",
          "r","a","l"," ","r","e","e","f"," ","s","y","s","t","e","m"," ","a",
          "n","d"," ","c","a","n"," ","b","e"," ","s","e","e","n"," ","f","r",
          "o","m"," ","s","p","a","c","e"," ","-"," ","i","t","'","s"," ","l",
          "a","r","g","e","r"," ","t","h","a","n"," ","t","h","e"," ","G","r",
          "e","a","t"," ","W","a","l","l"," ","o","f"," ","C","h","i","n","a",
          "!">>]>>

\* country_facts['egypt']
egypt_facts ==
    \* Ancient Wonder: The Great Pyramid of Giza was the tallest man-ma...
    <<[title |-> <<"A","n","c","i","e","n","t"," ","W","o","n","d","e","r">>,
       content |-> <<"T","h","e"," ","G","r","e","a","t"," ","P","y","r","a",
          "m","i","d"," ","o","f"," ","G","i","z","a"," ","w","a","s"," ","t",
          "h","e"," ","t","a","l","l","e","s","t"," ","m","a","n","-","m","a",
          "d","e"," ","s","t","r","u","c","t","u","r","e"," ","i","n"," ","t",
          "h","e"," ","w","o","r","l","d"," ","f","o","r"," ","o","v","e","r",
          " ","3",",","8","0","0"," ","y","e","a","r","s"," ","u","n","t","i",
          "l"," ","t","h","e"," ","E","i","f","f","e","l"," ","T","o","w","e",
          "r"," ","w","a","s"," ","b","u","i","l","t",".">>],
    \* Nile Lifeline: The Nile River, flowing through Egypt, is the lo...
      [title |-> <<"N","i","l","e"," ","L","i","f","e","l","i","n","e">>,
       content |-> <<"T","h","e"," ","N","i","l","e"," ","R","i","v","e","r",
          ","," ","f","l","o","w","i","n","g"," ","t","h","r","o","u","g","h",
          " ","E","g","y","p","t",","," ","i","s"," ","t","h","e"," ","l","o",
          "n","g","e","s","t"," ","r","i","v","e","r"," ","i","n"," ","t","h",
          "e"," ","w","o","r","l","d"," ","a","t"," ","4",",","1","3","5"," ",
          "m","i","l","e","s"," ","a","n","d"," ","h","a","s"," ","b","e","e",
          "n"," ","E","g","y","p","t","'","s"," ","l","i","f","e","l","i","n",
          "e"," ","f","o","r"," ","o","v","e","r"," ","5",",","0","0","0"," ",
          "y","e","a","r","s",".">>],
    \* Hieroglyphic Legacy: Ancient Egyptians used over 700 different hierog...
      [title |-> <<"H","i","e","r","o","g","l","y","p","h","i","c"," ","L",
          "e","g","a","c","y">>,
       content |-> <<"A","n","c","i","e","n","t"," ","E","g","y","p","t","i",
          "a","n","s"," ","u","s","e","d"," ","o","v","e","r"," ","7","0","0",
          " ","d","i","f","f","e","r","e","n","t"," ","h","i","e","r","o","g",
          "l","y","p","h","i","c"," ","s","y","m","b","o","l","s",","," ","a",
          "n","d"," ","t","h","e"," ","R","o","s","e","t","t","a"," ","S","t",
          "o","n","e"," ","w","a","s"," ","t","h","e"," ","k","e","y"," ","t",
          "o"," ","d","e","c","i","p","h","e","r","i","n","g"," ","t","h","i",
          "s"," ","a","n","c","i","e","n","t"," ","w","r","i","t","i","n","g",
          " ","s","y","s","t","e","m",".">>]>>

\* country_facts['india']
india_facts ==
    \* Language Diversity: India recognizes 22 official languages and has o...
    <<[title |-> <<"L","a","n","g","u","a","g","e"," ","D","i","v","e","r",
          "s","i","t","y">>,
       content |-> <<"I","n","d","i","a"," ","r","e","c","o","g","n","i","z",
          "e","s"," ","2","2"," ","o","f","f","i","c","i","a","l"," ","l","a",
          "n","g","u","a","g","e","s"," ","a","n","d"," ","h","a","s"," ","o",
          "v","e","r"," ","1",",","6","0","0"," ","s","p","o","k","e","n"," ",
          "l","a","n","g","u","a","g","e","s",","," ","m","a","k","i","n","g",
          " ","i","t"," ","o","n","e"," ","o","f"," ","t","h","e"," ","m","o",
          "s","t"," ","l","i","n","g","u","i","s","t","i","c","a","l","l","y",
          " ","d","i","v","e","r","s","e"," ","c","o","u","n","t","r","i","e",
          "s"," ","o","n"," ","E","a","r","t","h",".">>],
    \* Spice Origin: India is known as the 'Spice Bowl of the World' ...
      [title |-> <<"S","p","i","c","e"," ","O","r","i","g","i","n">>,
       content |-> <<"I","n","d","i","a"," ","i","s"," ","k","n","o","w","n",
          " ","a","s"," ","t","h","e"," ","'","S","p","i","c","e"," ","B","o",
          "w","l"," ","o","f"," ","t","h","e"," ","W","o","r","l","d","'"," ",
          "a","n","d"," ","p","r","o","d","u","c","e","s"," ","7","0","%"," ",
          "o","f"," ","t","h","e"," ","w","o","r","l","d","'","s"," ","s","p",
          "i","c","e","s",","," ","i","n","c","l","u","d","i","n","g"," ","b",
          "l","a","c","k"," ","p","e","p","p","e","r",","," ","c","a","r","d",
          "a","m","o","m",","," ","a","n","d"," ","t","u","r","m","e","r","i",
          "c",".">>],
    \* Chess Birthplace: Chess was invented in India around the 6th centu...
      [title |-> <<"C","h","e","s","s"," ","B","i","r","t","h","p","l","a",
          "c","e">>,
       content |-> <<"C","h","e","s","s"," ","w","a","s"," ","i","n","v","e",
          "n","t","e","d"," ","i","n"," ","I","n","d","i","a"," ","a","r","o",
          "u","n","d"," ","t","h","e"," ","6","t","h"," ","c","e","n","t","u",
          "r","y"," ","A","D",","," ","o","r","i","g","i","n","a","l","l","y",
          " ","c","a","l","l","e","d"," ","'","C","h","a","t","u","r","a","n",
          "g","a",",","'"," ","m","e","a","n","i","n","g"," ","'","f","o","u",
          "r"," ","d","i","v","i","s","i","o","n","s"," ","o","f"," ","t","h",
          "e"," ","a","r","m","y",".","'">>]>>

\* the curated table: a dict from the lower-case country name to its facts
country_facts ==
    (<<"j","a","p","a","n">> :> japan_facts)
    @@ (<<"f","r","a","n","c","e">> :> france_facts)
    @@ (<<"b","r","a","z","i","l">> :> brazil_facts)
    @@ (<<"g","e","r","m","a","n","y">> :> germany_facts)
    @@ (<<"i","t","a","l","y">> :> italy_facts)
    @@ (<<"s","p","a","i","n">> :> spain_facts)
    @@ (<<"c","a","n","a","d","a">> :> canada_facts)
    @@ (<<"a","u","s","t","r","a","l","i","a">> :> australia_facts)
    @@ (<<"e","g","y","p","t">> :> egypt_facts)
    @@ (<<"i","n","d","i","a">> :> india_facts)

\* a call's (facts, model_name) result; (None, None) is NoneNone
Result(f, m) == [is_none |-> FALSE, facts |-> f, model_used |-> m]

NoneNone == [is_none |-> TRUE, facts |-> <<>>, model_used |-> "None"]

\* the facts synthesised for a country the table does not hold
generic_patterns(name) ==
    <<[title |-> <<"G","e","o","g","r","a","p","h","i","c"," ","U","n","i","q","u","e","n","e","s","s">>,
       content |->
             name
          \o <<" ","h","a","s"," ","d","i","s","t","i","n","c","t","i","v",
              "e"," ","g","e","o","g","r","a","p","h","i","c","a","l"," ","f",
              "e","a","t","u","r","e","s"," ","t","h","a","t"," ","h","a","v",
              "e"," ","s","h","a","p","e","d"," ","i","t","s"," ","c","u","l",
              "t","u","r","e",","," ","c","l","i","m","a","t","e",","," ","a",
              "n","d"," ","w","a","y"," ","o","f"," ","l","i","f","e"," ","t",
              "h","r","o","u","g","h","o","u","t"," ","h","i","s","t","o","r",
              "y",".">>],
      [title |-> <<"C","u","l","t","u","r","a","l"," ","H","e","r","i","t","a","g","e">>,
       content |->
             <<"T","h","e"," ","p","e","o","p","l","e"," ","o","f"," ">>
          \o name
          \o <<" ","h","a","v","e"," ","d","e","v","e","l","o","p","e","d",
              " ","u","n","i","q","u","e"," ","t","r","a","d","i","t","i","o",
              "n","s",","," ","l","a","n","g","u","a","g","e","s",","," ","a",
              "n","d"," ","c","u","s","t","o","m","s"," ","t","h","a","t"," ",
              "r","e","f","l","e","c","t"," ","t","h","e","i","r"," ","r","i",
              "c","h"," ","h","i","s","t","o","r","i","c","a","l"," ","h","e",
              "r","i","t","a","g","e"," ","a","n","d"," ","r","e","g","i","o",
              "n","a","l"," ","i","n","f","l","u","e","n","c","e","s",".">>],
      [title |-> <<"G","l","o","b","a","l"," ","C","o","n","t","r","i","b","u","t","i","o","n">>,
       content |->
             name
          \o <<" ","h","a","s"," ","m","a","d","e"," ","s","i","g","n","i",
              "f","i","c","a","n","t"," ","c","o","n","t","r","i","b","u","t",
              "i","o","n","s"," ","t","o"," ","w","o","r","l","d"," ","c","u",
              "l","t","u","r","e",","," ","s","c","i","e","n","c","e",","," ",
              "a","r","t",","," ","o","r"," ","i","n","t","e","r","n","a","t",
              "i","o","n","a","l"," ","r","e","l","a","t","i","o","n","s"," ",
              "t","h","a","t"," ","c","o","n","t","i","n","u","e"," ","t","o",
              " ","i","n","f","l","u","e","n","c","e"," ","g","l","o","b","a",
              "l"," ","s","o","c","i","e","t","y"," ","t","o","d","a","y",
              ".">>]>>

\* generate_intelligent_facts once country_lower is computed
facts_for(name, country_lower) ==
    IF country_lower \in DOMAIN country_facts
    THEN Result(country_facts[country_lower], "Enhanced Knowledge Base")
    ELSE Result(generic_patterns(name), "Enhanced Knowledge Base")

\* a slip: the table is searched for the name as given
generate_intelligent_facts_exact_key(name) == facts_for(name, name)

generate_intelligent_facts(name) == facts_for(name, lower(name))

\* try_creative_generation: raises tells whether generate_intelligent_facts
\* raised, which the except clause turns into (None, None)
try_creative_generation(name, raises) ==
    IF raises THEN NoneNone ELSE generate_intelligent_facts(name)

\* the facts generate_facts answers with when the strategy gave none
fallback_facts(name) ==
    <<[title |-> <<"G","e","o","g","r","a","p","h","i","c"," ","L","o","c","a","t","i","o","n">>,
       content |->
             name
          \o <<" ","i","s"," ","a"," ","u","n","i","q","u","e"," ","n","a",
              "t","i","o","n"," ","w","i","t","h"," ","i","t","s"," ","o","w",
              "n"," ","d","i","s","t","i","n","c","t"," ","g","e","o","g","r",
              "a","p","h","y"," ","a","n","d"," ","b","o","r","d","e","r","s",
              ".">>],
      [title |-> <<"C","u","l","t","u","r","a","l"," ","H","e","r","i","t","a","g","e">>,
       content |->
             name
          \o <<" ","h","a","s"," ","a"," ","r","i","c","h"," ","c","u","l",
              "t","u","r","a","l"," ","h","e","r","i","t","a","g","e"," ","t",
              "h","a","t"," ","r","e","f","l","e","c","t","s"," ","i","t","s",
              " ","h","i","s","t","o","r","y"," ","a","n","d"," ","p","e","o",
              "p","l","e",".">>],
      [title |-> <<"M","o","d","e","r","n"," ","S","i","g","n","i","f","i","c","a","n","c","e">>,
       content |->
             name
          \o <<" ","c","o","n","t","i","n","u","e","s"," ","t","o"," ","p",
              "l","a","y"," ","a","n"," ","i","m","p","o","r","t","a","n","t",
              " ","r","o","l","e"," ","i","n"," ","t","o","d","a","y","'","s",
              " ","g","l","o","b","a","l"," ","c","o","m","m","u","n","i","t",
              "y",".">>]>>

\* capitals, the dict of try_simple_chat
capitals ==
    (<<"j","a","p","a","n">> :> <<"T","o","k","y","o">>)
    @@ (<<"f","r","a","n","c","e">> :> <<"P","a","r","i","s">>)
    @@ (<<"g","e","r","m","a","n","y">> :> <<"B","e","r","l","i","n">>)
    @@ (<<"i","t","a","l","y">> :> <<"R","o","m","e">>)
    @@ (<<"s","p","a","i","n">> :> <<"M","a","d","r","i","d">>)
    @@ (<<"b","r","a","z","i","l">> :> <<"B","r","a","s","U+00ED","l","i","a">>)
    @@ (<<"c","a","n","a","d","a">> :> <<"O","t","t","a","w","a">>)
    @@ (<<"a","u","s","t","r","a","l","i","a">> :> <<"C","a","n","b","e","r","r","a">>)
    @@ (<<"i","n","d","i","a">> :> <<"N","e","w"," ","D","e","l","h","i">>)
    @@ (<<"e","g","y","p","t">> :> <<"C","a","i","r","o">>)
    @@ (<<"c","h","i","n","a">> :> <<"B","e","i","j","i","n","g">>)
    @@ (<<"r","u","s","s","i","a">> :> <<"M","o","s","c","o","w">>)
    @@ (<<"u","k">> :> <<"L","o","n","d","o","n">>)
    @@ (<<"u","s","a">> :> <<"W","a","s","h","i","n","g","t","o","n"," ","D",".","C",".">>)
    @@ (<<"m","e","x","i","c","o">> :> <<"M","e","x","i","c","o"," ","C","i","t","y">>)
    @@ (<<"a","r","g","e","n","t","i","n","a">> :> <<"B","u","e","n","o","s"," ","A","i","r","e","s">>)

\* languages, the dict of try_simple_chat
languages ==
    (<<"j","a","p","a","n">> :> <<"J","a","p","a","n","e","s","e">>)
    @@ (<<"f","r","a","n","c","e">> :> <<"F","r","e","n","c","h">>)
    @@ (<<"g","e","r","m","a","n","y">> :> <<"G","e","r","m","a","n">>)
    @@ (<<"i","t","a","l","y">> :> <<"I","t","a","l","i","a","n">>)
    @@ (<<"s","p","a","i","n">> :> <<"S","p","a","n","i","s","h">>)
    @@ (<<"b","r","a","z","i","l">> :> <<"P","o","r","t","u","g","u","e","s","e">>)
    @@ (<<"c","h","i","n","a">> :> <<"M","a","n","d","a","r","i","n"," ","C","h","i","n","e","s","e">>)
    @@ (<<"r","u","s","s","i","a">> :> <<"R","u","s","s","i","a","n">>)
    @@ (<<"e","g","y","p","t">> :> <<"A","r","a","b","i","c">>)
    @@ (<<"i","n","d","i","a">> :> <<"H","i","n","d","i"," ","a","n","d"," ","E","n","g","l","i","s","h">>)
    @@ (<<"a","u","s","t","r","a","l","i","a">> :> <<"E","n","g","l","i","s","h">>)
    @@ (<<"c","a","n","a","d","a">> :> <<"E","n","g","l","i","s","h"," ","a","n","d"," ","F","r","e","n","c","h">>)

\* currencies, the dict of try_simple_chat
currencies ==
    (<<"j","a","p","a","n">> :> <<"J","a","p","a","n","e","s","e"," ","Y","e","n">>)
    @@ (<<"f","r","a","n","c","e">> :> <<"E","u","r","o">>)
    @@ (<<"g","e","r","m","a","n","y">> :> <<"E","u","r","o">>)
    @@ (<<"i","t","a","l","y">> :> <<"E","u","r","o">>)
    @@ (<<"s","p","a","i","n">> :> <<"E","u","r","o">>)
    @@ (<<"b","r","a","z","i","l">> :> <<"B","r","a","z","i","l","i","a","n"," ","R","e","a","l">>)

\* the generic helpful response of try_simple_chat
generic_response(name) ==
       <<"T","h","a","t","'","s"," ","a","n"," ","i","n","t","e","r","e","s",
        "t","i","n","g"," ","q","u","e","s","t","i","o","n"," ","a","b","o",
        "u","t"," ">>
    \o name
    \o <<"!"," ","W","h","i","l","e"," ","I"," ","d","o","n","'","t"," ","h",
        "a","v","e"," ","s","p","e","c","i","f","i","c"," ","d","e","t","a",
        "i","l","s"," ","a","b","o","u","t"," ","t","h","a","t"," ","r","i",
        "g","h","t"," ","n","o","w",","," ">>
    \o name
    \o <<" ","i","s"," ","a"," ","f","a","s","c","i","n","a","t","i","n","g",
        " ","c","o","u","n","t","r","y"," ","w","i","t","h"," ","r","i","c",
        "h"," ","h","i","s","t","o","r","y",","," ","c","u","l","t","u","r",
        "e",","," ","a","n","d"," ","u","n","i","q","u","e"," ","c","h","a",
        "r","a","c","t","e","r","i","s","t","i","c","s"," ","w","o","r","t",
        "h"," ","e","x","p","l","o","r","i","n","g"," ","f","u","r","t","h",
        "e","r",".">>

\* the fixed answer to a question about population
population_response(name) ==
       name
    \o <<" ","h","a","s"," ","a"," ","s","i","g","n","i","f","i","c","a","n",
        "t"," ","p","o","p","u","l","a","t","i","o","n"," ","t","h","a","t",
        " ","v","a","r","i","e","s"," ","o","v","e","r"," ","t","i","m","e",
        "."," ","F","o","r"," ","t","h","e"," ","m","o","s","t"," ","c","u",
        "r","r","e","n","t"," ","f","i","g","u","r","e","s",","," ","I","'",
        "d"," ","r","e","c","o","m","m","e","n","d"," ","c","h","e","c","k",
        "i","n","g"," ","r","e","c","e","n","t"," ","c","e","n","s","u","s",
        " ","d","a","t","a",".">>

\* 'capital' in question_lower, and the other keywords
kw_capital == <<"c","a","p","i","t","a","l">>
kw_population == <<"p","o","p","u","l","a","t","i","o","n">>
kw_language == <<"l","a","n","g","u","a","g","e">>
kw_currency == <<"c","u","r","r","e","n","c","y">>

\* a (text, model_name) result of a chat function
Answer(text, m) == [text |-> text, model_used |-> m]

\* dict.get(key): the value, or None (here the empty string, which the
\* truth test that follows treats as it treats None)
dict_get(d, k) == IF k \in DOMAIN d THEN d[k] ELSE <<>>

\* try_simple_chat once question_lower is computed
answer_for(name, question_lower) ==
    LET generic == Answer(generic_response(name), "Knowledge Base")
    IN  IF Contains(question_lower, kw_capital)
        THEN LET capital == dict_get(capitals, lower(name))
             IN  IF capital # <<>>
                 THEN Answer(
                           <<"T","h","e"," ","c","a","p","i","t","a","l"," ",
                            "o","f"," ">>
                        \o name
                        \o <<" ","i","s"," ">>
                        \o capital
                        \o <<".">>,
                             "Knowledge Base")
                 ELSE generic
        ELSE IF Contains(question_lower, kw_population)
        THEN Answer(population_response(name), "Knowledge Base")
        ELSE IF Contains(question_lower, kw_language)
        THEN LET language == dict_get(languages, lower(name))
             IN  IF language # <<>>
                 THEN Answer(
                           <<"T","h","e"," ","p","r","i","m","a","r","y"," ",
                            "l","a","n","g","u","a","g","e"," ","s","p","o",
                            "k","e","n"," ","i","n"," ">>
                        \o name
                        \o <<" ","i","s"," ">>
                        \o language
                        \o <<".">>,
                             "Knowledge Base")
                 ELSE generic
        ELSE IF Contains(question_lower, kw_currency)
        THEN LET currency == dict_get(currencies, lower(name))
             IN  IF currency # <<>>
                 THEN Answer(
                           <<"T","h","e"," ","c","u","r","r","e","n","c","y",
                            " ","u","s","e","d"," ","i","n"," ">>
                        \o name
                        \o <<" ","i","s"," ","t","h","e"," ">>
                        \o currency
                        \o <<".">>,
                             "Knowledge Base")
                 ELSE generic
        ELSE generic

\* a slip: the keywords are looked for in the question as given
try_simple_chat_exact_case(name, q) == answer_for(name, q)

try_simple_chat(name, q) == answer_for(name, lower(q))

\* try_ollama_local: reply is what requests.post() does, an exception
\* (connection refused, timeout) or an HTTP response with a status and the
\* 'response' text of its JSON body
ollama_result(fs) ==
    IF Len(fs) > 0 THEN Result(fs, "Llama 2 (Ollama)") ELSE NoneNone

try_ollama_local(name, reply) ==
    IF reply.kind = "exception" THEN NoneNone
    ELSE IF reply.status = 200 /\ reply.response # <<>>
    THEN ollama_result(parse_facts_from_response(reply.response, name))
    ELSE NoneNone

(***************************************************************************)
(* Unit level: one function is called on arguments drawn from bounded      *)
(* sets.                                                                   *)
(***************************************************************************)
\* the longest text enumerated character by character
MaxLen == 4

\* the most fragments joined into a text
MaxItems == 3

\* the longest country name enumerated character by character
MaxNameLen == 3

\* the sequences over S of length at most n
SeqsUpTo(S, n) == UNION {[1..k -> S] : k \in 0..n}

TextAlphabet == {"1", ".", ":", " ", "\n", "a", "-"}

ShortTexts == SeqsUpTo(TextAlphabet, MaxLen)

\* '1. A: b 2. C: d '
ItemTwoFacts ==
    <<"1","."," ","A",":"," ","b"," ","2","."," ","C",":"," ","d"," ">>

\* '3.Ef\n'
ItemLine ==
    <<"3",".","E","f","\n">>

\* '- g: h\ni '
ItemBullet ==
    <<"-"," ","g",":"," ","h","\n","i"," ">>

\* '7.5 j'
ItemDecimal ==
    <<"7",".","5"," ","j">>

\* 'It is a land of many rivers! '
ItemSentence ==
    <<"I","t"," ","i","s"," ","a"," ","l","a","n","d"," ","o","f"," ","m","a",
      "n","y"," ","r","i","v","e","r","s","!"," ">>

Items == {ItemTwoFacts, ItemLine, ItemBullet, ItemDecimal, ItemSentence}

\* the texts made of at most n fragments
RECURSIVE Joined(_)
Joined(n) ==
    IF n = 0 THEN {<<>>}
    ELSE Joined(n - 1) \cup {t \o i : t \in Joined(n - 1), i \in Items}

ItemTexts == Joined(MaxItems)

\* '1. Title One: Content one. 2. Title Two: Content two. 3. Title Three: Content three.'
SpecExample ==
    <<"1","."," ","T","i","t","l","e"," ","O","n","e",":"," ","C","o","n","t",
      "e","n","t"," ","o","n","e","."," ","2","."," ","T","i","t","l","e"," ",
      "T","w","o",":"," ","C","o","n","t","e","n","t"," ","t","w","o","."," ",
      "3","."," ","T","i","t","l","e"," ","T","h","r","e","e",":"," ","C","o",
      "n","t","e","n","t"," ","t","h","r","e","e",".">>

\* '1. Title One: Content one.\n2. Title Two: Content two.\n3. Title Three: Content three.'
SpecExampleLines ==
    <<"1","."," ","T","i","t","l","e"," ","O","n","e",":"," ","C","o","n","t",
      "e","n","t"," ","o","n","e",".","\n","2","."," ","T","i","t","l","e",
      " ","T","w","o",":"," ","C","o","n","t","e","n","t"," ","t","w","o",".",
      "\n","3","."," ","T","i","t","l","e"," ","T","h","r","e","e",":"," ",
      "C","o","n","t","e","n","t"," ","t","h","r","e","e",".">>

\* '1. Rivers: The land has\nmany rivers.\n2. Hills: It has hills too.'
TwoLineContent ==
    <<"1","."," ","R","i","v","e","r","s",":"," ","T","h","e"," ","l","a","n",
      "d"," ","h","a","s","\n","m","a","n","y"," ","r","i","v","e","r","s",
      ".","\n","2","."," ","H","i","l","l","s",":"," ","I","t"," ","h","a",
      "s"," ","h","i","l","l","s"," ","t","o","o",".">>

\* '1. Rivers: many\n2. Hills: few'
TwoNumbered ==
    <<"1","."," ","R","i","v","e","r","s",":"," ","m","a","n","y","\n","2",
      "."," ","H","i","l","l","s",":"," ","f","e","w">>

\* 'Nice place. Go there! Why not?'
ShortSentences ==
    <<"N","i","c","e"," ","p","l","a","c","e","."," ","G","o"," ","t","h","e",
      "r","e","!"," ","W","h","y"," ","n","o","t","?">>

\* 'The country has many rivers. Its hills are green in the spring!  Twenty chars exactly. Twenty one characters? People live near the coast. Few live inland, far away.'
LongSentences ==
    <<"T","h","e"," ","c","o","u","n","t","r","y"," ","h","a","s"," ","m","a",
      "n","y"," ","r","i","v","e","r","s","."," ","I","t","s"," ","h","i","l",
      "l","s"," ","a","r","e"," ","g","r","e","e","n"," ","i","n"," ","t","h",
      "e"," ","s","p","r","i","n","g","!"," "," ","T","w","e","n","t","y"," ",
      "c","h","a","r","s"," ","e","x","a","c","t","l","y","."," ","T","w","e",
      "n","t","y"," ","o","n","e"," ","c","h","a","r","a","c","t","e","r","s",
      "?"," ","P","e","o","p","l","e"," ","l","i","v","e"," ","n","e","a","r",
      " ","t","h","e"," ","c","o","a","s","t","."," ","F","e","w"," ","l","i",
      "v","e"," ","i","n","l","a","n","d",","," ","f","a","r"," ","a","w","a",
      "y",".">>

\* '* ab: cd\n* ef: gh\n* ij: kl\n* mn: op'
FourBullets ==
    <<"*"," ","a","b",":"," ","c","d","\n","*"," ","e","f",":"," ","g","h",
      "\n","*"," ","i","j",":"," ","k","l","\n","*"," ","m","n",":"," ","o",
      "p">>

SampleTexts ==
    {SpecExample, SpecExampleLines, TwoLineContent, TwoNumbered, FourBullets,
     ShortSentences, LongSentences}

\* 'France'
France ==
    <<"F","r","a","n","c","e">>

\* 'Japan'
Japan ==
    <<"J","a","p","a","n">>

\* 'JAPAN'
JAPAN ==
    <<"J","A","P","A","N">>

\* 'japan'
japan ==
    <<"j","a","p","a","n">>

\* ' Japan'
JapanPadded ==
    <<" ","J","a","p","a","n">>

\* 'Wakanda'
Wakanda ==
    <<"W","a","k","a","n","d","a">>

\* 'Brazil'
Brazil ==
    <<"B","r","a","z","i","l">>

\* 'India'
India ==
    <<"I","n","d","i","a">>

\* 'egYPT'
EgyptMixed ==
    <<"e","g","Y","P","T">>

SampleNames == {France, Japan, JAPAN, japan, JapanPadded, Wakanda, Brazil, India, EgyptMixed}

NameAlphabet == {"u", "k", "U", " "}

Names == SampleNames \cup SeqsUpTo(NameAlphabet, MaxNameLen)

\* 'What is the capital?'
QCapital ==
    <<"W","h","a","t"," ","i","s"," ","t","h","e"," ","c","a","p","i","t","a",
      "l","?">>

\* 'CAPITAL CITY'
QCapitalUpper ==
    <<"C","A","P","I","T","A","L"," ","C","I","T","Y">>

\* 'currency used in the capital'
QCapitalCurrency ==
    <<"c","u","r","r","e","n","c","y"," ","u","s","e","d"," ","i","n"," ","t",
      "h","e"," ","c","a","p","i","t","a","l">>

\* 'Population?'
QPopulation ==
    <<"P","o","p","u","l","a","t","i","o","n","?">>

\* 'population of the capital'
QPopulationCapital ==
    <<"p","o","p","u","l","a","t","i","o","n"," ","o","f"," ","t","h","e"," ",
      "c","a","p","i","t","a","l">>

\* 'Which language do people speak'
QLanguage ==
    <<"W","h","i","c","h"," ","l","a","n","g","u","a","g","e"," ","d","o"," ",
      "p","e","o","p","l","e"," ","s","p","e","a","k">>

\* 'currency or language'
QLanguageCurrency ==
    <<"c","u","r","r","e","n","c","y"," ","o","r"," ","l","a","n","g","u","a",
      "g","e">>

\* 'language of the population'
QLanguagePopulation ==
    <<"l","a","n","g","u","a","g","e"," ","o","f"," ","t","h","e"," ","p","o",
      "p","u","l","a","t","i","o","n">>

\* 'What currency?'
QCurrency ==
    <<"W","h","a","t"," ","c","u","r","r","e","n","c","y","?">>

\* 'Is it far away?'
QOther ==
    <<"I","s"," ","i","t"," ","f","a","r"," ","a","w","a","y","?">>

\* 'capitol curency'
QNearMiss ==
    <<"c","a","p","i","t","o","l"," ","c","u","r","e","n","c","y">>

\* ''
QEmpty ==
    <<>>

Questions == {QCapital, QCapitalUpper, QCapitalCurrency, QPopulation, QPopulationCapital, QLanguage, QLanguageCurrency, QLanguagePopulation, QCurrency, QOther, QNearMiss, QEmpty}

\* texts made of numbered items '<n>. <title>: <content>'
PairOne ==
    [title |-> <<"T","i","t","l","e"," ","O","n","e">>,
     content |-> <<"C","o","n","t","e","n","t"," ","o","n","e",".">>]

PairTwo ==
    [title |-> <<"T","i","t","l","e"," ","T","w","o">>,
     content |-> <<"C","o","n","t","e","n","t"," ","t","w","o",".">>]

PairThree ==
    [title |-> <<"T","i","t","l","e"," ","T","h","r","e","e">>,
     content |-> <<"C","o","n","t","e","n","t"," ","t","h","r","e","e",".">>]

PairShort ==
    [title |-> <<"A">>,
     content |-> <<"b">>]

PairLines ==
    [title |-> <<"R","i","v","e","r","s">>,
     content |-> <<"T","h","e"," ","l","a","n","d"," ","h","a","s","\n","m",
        "a","n","y"," ","r","i","v","e","r","s">>]

ItemPairs == {PairOne, PairTwo, PairThree, PairShort, PairLines}

\* the lists of at most n items
ItemLists(n) == UNION {[1..k -> ItemPairs] : k \in 1..n}

\* '<n>. <title>: <content>' for each item, sep after each but the last
RECURSIVE Render(_, _, _)
Render(items, sep, k) ==
    IF k > Len(items) THEN <<>>
    ELSE <<DigitOf(k), ".", " ">> \o items[k].title \o <<":", " ">>
         \o items[k].content
         \o (IF k < Len(items) THEN sep ELSE <<>>)
         \o Render(items, sep, k + 1)

Separators == {<<" ">>, <<"\n">>}

NumberedTexts ==
    {Render(items, sep, 1) : items \in ItemLists(MaxItems), sep \in Separators}

\* what requests.post() to the local endpoint may do
Replies ==
    {[kind |-> "exception", status |-> 0, response |-> <<>>]}
    \cup {[kind |-> "http", status |-> s, response |-> t] :
            s \in {200, 404, 500}, t \in ItemTexts \cup SampleTexts}

NotCalled == [called |-> FALSE]

Returned(v) == [called |-> TRUE, value |-> v]

ParseArgs ==
    {[text |-> t, country |-> France] : t \in ShortTexts}
    \cup {[text |-> t, country |-> c] :
            t \in ItemTexts \cup SampleTexts, c \in {France, Wakanda}}
    \cup {[text |-> t, country |-> France] : t \in NumberedTexts}

LookupArgs == {[country |-> c] : c \in Names}

ChatArgs == {[country |-> c, question |-> q] : c \in Names, q \in Questions}

OllamaArgs == {[country |-> France, reply |-> r] : r \in Replies}

UnitCalls ==
    {<<"parse_facts_from_response", a>> : a \in ParseArgs}
    \cup {<<"generate_intelligent_facts", a>> : a \in LookupArgs}
    \cup {<<"try_simple_chat", a>> : a \in ChatArgs}
    \cup {<<"try_ollama_local", a>> : a \in OllamaArgs}

UnitInit ==
    /\ \E call \in UnitCalls : fn = call[1] /\ arg = call[2]
    /\ ret = NotCalled

call_parse_facts_from_response ==
    /\ fn = "parse_facts_from_response" /\ ret = NotCalled
    /\ ret' = Returned(parse_facts_from_response(arg.text, arg.country))
    /\ UNCHANGED <<fn, arg, serviceVars>>

call_generate_intelligent_facts ==
    /\ fn = "generate_intelligent_facts" /\ ret = NotCalled
    /\ ret' = Returned(generate_intelligent_facts(arg.country))
    /\ UNCHANGED <<fn, arg, serviceVars>>

call_try_simple_chat ==
    /\ fn = "try_simple_chat" /\ ret = NotCalled
    /\ ret' = Returned(try_simple_chat(arg.country, arg.question))
    /\ UNCHANGED <<fn, arg, serviceVars>>

call_try_ollama_local ==
    /\ fn = "try_ollama_local" /\ ret = NotCalled
    /\ ret' = Returned(try_ollama_local(arg.country, arg.reply))
    /\ UNCHANGED <<fn, arg, serviceVars>>

(***************************************************************************)
(* The service: requests are handled concurrently, each by its own         *)
(* invocation of the route's handler with its own locals.                  *)
(***************************************************************************)
\* the requests in flight at once
NReq == 2

Requests == 1..NReq

\* JSON values: a string, or a value that is no string (a number)
JStr(s) == [t |-> "str", v |-> s]

JNum == [t |-> "num", v |-> <<>>]

\* what request.get_json() does: raises (the body is no JSON), or returns
\* None (the body is null) or the dict of the body's object
Malformed == [t |-> "raise", v |-> <<>>]

JsonNull == [t |-> "null", v |-> <<>>]

Obj(d) == [t |-> "dict", v |-> d]

EmptyDict == [k \in {} |-> JNum]

JapanSpaced == <<" ">> \o Japan \o <<" ", "\n">>

UkSpaced == <<" ", "U", "k">>

Blank == <<" ", "\t">>

GenerateFactsBodies ==
    { Malformed, JsonNull, Obj(EmptyDict),
      Obj("country" :> JStr(<<>>)),
      Obj("country" :> JStr(Blank)),
      Obj("country" :> JNum),
      Obj("country" :> JStr(JapanSpaced)),
      Obj("country" :> JStr(Wakanda)) }

ChatBodies ==
    { JsonNull,
      Obj("country" :> JStr(Japan)),
      Obj("question" :> JStr(QCapital)),
      Obj(("country" :> JStr(Blank)) @@ ("question" :> JNum)),
      Obj(("country" :> JStr(Blank)) @@ ("question" :> JStr(QCapital))),
      Obj(("country" :> JStr(Japan)) @@ ("question" :> JStr(Blank))),
      Obj(("country" :> JNum) @@ ("question" :> JStr(QCapital))),
      Obj(("country" :> JStr(UkSpaced)) @@ ("question" :> JStr(QCapital))),
      Obj(("country" :> JStr(Wakanda)) @@ ("question" :> JStr(QCurrency))) }

BodiesOf(e) ==
    IF e = "/generate-facts" THEN GenerateFactsBodies
    ELSE IF e = "/chat" THEN ChatBodies
    ELSE {JsonNull}

Endpoints == {"/generate-facts", "/chat", "/health"}

\* the local model endpoint, as the environment has it for the whole run
OllamaStates ==
    { [kind |-> "exception", status |-> 0, response |-> <<>>],
      [kind |-> "http", status |-> 500, response |-> ItemTwoFacts],
      [kind |-> "http", status |-> 200, response |-> <<>>],
      [kind |-> "http", status |-> 200, response |-> ItemTwoFacts] }

\* a response: the HTTP status and the JSON payload; status 0 stands for no
\* response, the handler's exception having reached the framework
Resp(status, payload) == [status |-> status, payload |-> payload]

NoResponse == Resp(0, [none |-> TRUE])

\* a slip: the handler has no except clause and the exception leaves it
exception_unhandled == Resp(0, [unhandled |-> TRUE])

\* except Exception as e: return jsonify({"error": ...}), 500
on_exception == Resp(500, [error |-> "Internal server error"])

\* data.get(key, '')
get(data, key) == IF key \in DOMAIN data THEN data[key] ELSE JStr(<<>>)

\* data = request.get_json(); data.get(key, '').strip(): whether it raises
\* (get_json raises, None has no get, a non-string has no strip)
field_raises(b, key) == b.t # "dict" \/ get(b.v, key).t # "str"

field(b, key) == strip(get(b.v, key).v)

\* generate_facts up to the validation: the response if it ends there
generate_facts_validate(b) ==
    IF field_raises(b, "country") THEN on_exception
    ELSE IF field(b, "country") = <<>>
    THEN Resp(400, [error |-> "Country name is required"])
    ELSE NoResponse

\* a slip: the facts are sent as the strategy gave them, with no fallback
generate_facts_respond_as_given(result, name) ==
    Resp(200, [facts |-> result.facts,
               model_used |-> result.model_used,
               status |-> "success"])

\* generate_facts after the strategy returned result
generate_facts_respond(result, name) ==
    IF ~result.is_none /\ Len(result.facts) > 0
    THEN Resp(200, [facts |-> result.facts,
                    model_used |-> result.model_used,
                    status |-> "success"])
    ELSE Resp(200, [facts |-> fallback_facts(name),
                    model_used |-> "Fallback System",
                    status |-> "fallback"])

\* chat up to the validation: the response if it ends there
chat_validate(b) ==
    IF field_raises(b, "country") \/ field_raises(b, "question")
    THEN on_exception
    ELSE IF field(b, "country") = <<>> \/ field(b, "question") = <<>>
    THEN Resp(400, [error |-> "Country name and question are required"])
    ELSE NoResponse

\* the fallback answer of chat
chat_fallback(name) ==
       <<"I","'","d"," ","b","e"," ","h","a","p","p","y"," ","t","o"," ","h",
        "e","l","p"," ","y","o","u"," ","l","e","a","r","n"," ","m","o","r",
        "e"," ","a","b","o","u","t"," ">>
    \o name
    \o <<"!"," ","U","n","f","o","r","t","u","n","a","t","e","l","y",","," ",
        "I","'","m"," ","h","a","v","i","n","g"," ","t","r","o","u","b","l",
        "e"," ","a","c","c","e","s","s","i","n","g"," ","d","e","t","a","i",
        "l","e","d"," ","i","n","f","o","r","m","a","t","i","o","n"," ","r",
        "i","g","h","t"," ","n","o","w","."," ","Y","o","u"," ","m","i","g",
        "h","t"," ","w","a","n","t"," ","t","o"," ","t","r","y"," ","a","s",
        "k","i","n","g"," ","a","b","o","u","t"," ","s","p","e","c","i","f",
        "i","c"," ","a","s","p","e","c","t","s"," ","l","i","k","e"," ","c",
        "u","l","t","u","r","e",","," ","h","i","s","t","o","r","y",","," ",
        "g","e","o","g","r","a","p","h","y",","," ","o","r"," ","f","a","m",
        "o","u","s"," ","l","a","n","d","m","a","r","k","s",".">>

\* chat after try_simple_chat returned answer
chat_respond(answer, name) ==
    IF answer.text # <<>>
    THEN Resp(200, [response |-> answer.text,
                    model_used |-> answer.model_used,
                    status |-> "success"])
    ELSE Resp(200, [response |-> chat_fallback(name),
                    model_used |-> "Fallback System",
                    status |-> "fallback"])

\* health
health_response ==
    Resp(200, [status |-> "running",
               available_models |-> <<"Llama 2 (Ollama)",
                                      "Enhanced Knowledge Base",
                                      "Simple Knowledge Base">>,
               endpoints |-> <<"/generate-facts", "/chat", "/health">>])

\* a slip: country_name kept in a module-level global, which holds what
\* the latest handler to reach the strategy call stored
global_country(r) ==
    IF \E o \in 1..Len(pc) : o # r /\ pc[o] \in {"generate", "respond"}
    THEN country_name[CHOOSE o \in 1..Len(pc) :
                         o # r /\ pc[o] \in {"generate", "respond"}]
    ELSE country_name[r]

\* the handler's own local country_name
local_country(r) == country_name[r]

ServiceInit ==
    /\ pc = [r \in Requests |-> "idle"]
    /\ endpoint = [r \in Requests |-> "none"]
    /\ body = [r \in Requests |-> JsonNull]
    /\ country_name = [r \in Requests |-> <<>>]
    /\ question = [r \in Requests |-> <<>>]
    /\ facts = [r \in Requests |-> NoneNone]
    /\ model_used = [r \in Requests |-> "None"]
    /\ response = [r \in Requests |-> NoResponse]
    /\ invoked = [r \in Requests |-> <<>>]
    /\ fault = [r \in Requests |-> FALSE]

Init ==
    /\ fn = "none" /\ arg = <<>> /\ ret = NotCalled
    /\ ServiceInit
    /\ ollama \in OllamaStates

\* a request arrives and a handler invocation starts
receive(r) ==
    /\ pc[r] = "idle"
    /\ \E e \in Endpoints : \E b \in BodiesOf(e) :
          /\ endpoint' = [endpoint EXCEPT ![r] = e]
          /\ body' = [body EXCEPT ![r] = b]
    /\ pc' = [pc EXCEPT ![r] = "validate"]
    /\ UNCHANGED <<country_name, question, facts, model_used, response,
                   invoked, fault, ollama, unitVars>>

\* generate_facts, from its entry to the validation of the country
generate_facts_start(r) ==
    /\ pc[r] = "validate" /\ endpoint[r] = "/generate-facts"
    /\ LET early == generate_facts_validate(body[r])
       IN  IF early # NoResponse
           THEN /\ response' = [response EXCEPT ![r] = early]
                /\ pc' = [pc EXCEPT ![r] = "done"]
                /\ UNCHANGED country_name
           ELSE /\ country_name' =
                      [country_name EXCEPT ![r] = field(body[r], "country")]
                /\ pc' = [pc EXCEPT ![r] = "generate"]
                /\ UNCHANGED response
    /\ UNCHANGED <<endpoint, body, question, facts, model_used, invoked,
                   fault, ollama, unitVars>>

\* generate_facts: facts, model_used = try_creative_generation(country_name);
\* raises is whether generate_intelligent_facts raised inside it
generate_facts_strategy(r) ==
    /\ pc[r] = "generate" /\ endpoint[r] = "/generate-facts"
    /\ \E raises \in BOOLEAN :
          LET result == try_creative_generation(local_country(r), raises)
          IN  /\ facts' = [facts EXCEPT ![r] = result]
              /\ model_used' = [model_used EXCEPT ![r] = result.model_used]
              /\ fault' = [fault EXCEPT ![r] = raises]
    /\ invoked' = [invoked EXCEPT ![r] =
                      @ \o <<"try_creative_generation",
                             "generate_intelligent_facts">>]
    /\ pc' = [pc EXCEPT ![r] = "respond"]
    /\ UNCHANGED <<endpoint, body, country_name, question, response, ollama,
                   unitVars>>

\* generate_facts, from the test of facts to the response
generate_facts_finish(r) ==
    /\ pc[r] = "respond" /\ endpoint[r] = "/generate-facts"
    /\ response' = [response EXCEPT ![r] =
                       generate_facts_respond(facts[r], local_country(r))]
    /\ pc' = [pc EXCEPT ![r] = "done"]
    /\ UNCHANGED <<endpoint, body, country_name, question, facts, model_used,
                   invoked, fault, ollama, unitVars>>

\* chat, from its entry to the validation of country and question
chat_start(r) ==
    /\ pc[r] = "validate" /\ endpoint[r] = "/chat"
    /\ LET early == chat_validate(body[r])
       IN  IF early # NoResponse
           THEN /\ response' = [response EXCEPT ![r] = early]
                /\ pc' = [pc EXCEPT ![r] = "done"]
                /\ UNCHANGED <<country_name, question>>
           ELSE /\ country_name' =
                      [country_name EXCEPT ![r] = field(body[r], "country")]
                /\ question' =
                      [question EXCEPT ![r] = field(body[r], "question")]
                /\ pc' = [pc EXCEPT ![r] = "generate"]
                /\ UNCHANGED response
    /\ UNCHANGED <<endpoint, body, facts, model_used, invoked, fault, ollama,
                   unitVars>>

\* chat: facts, model_used = try_simple_chat(country_name, question); an
\* exception raised inside it reaches the handler's except clause
chat_strategy(r) ==
    /\ pc[r] = "generate" /\ endpoint[r] = "/chat"
    /\ \E raises \in BOOLEAN :
          /\ fault' = [fault EXCEPT ![r] = raises]
          /\ IF raises
             THEN /\ response' = [response EXCEPT ![r] = on_exception]
                  /\ pc' = [pc EXCEPT ![r] = "done"]
                  /\ UNCHANGED <<facts, model_used>>
             ELSE LET answer == try_simple_chat(local_country(r), question[r])
                  IN  /\ facts' = [facts EXCEPT ![r] = answer]
                      /\ model_used' =
                            [model_used EXCEPT ![r] = answer.model_used]
                      /\ pc' = [pc EXCEPT ![r] = "respond"]
                      /\ UNCHANGED response
    /\ invoked' = [invoked EXCEPT ![r] = @ \o <<"try_simple_chat">>]
    /\ UNCHANGED <<endpoint, body, country_name, question, ollama, unitVars>>

\* chat, from the test of facts to the response
chat_finish(r) ==
    /\ pc[r] = "respond" /\ endpoint[r] = "/chat"
    /\ response' = [response EXCEPT ![r] =
                       chat_respond(facts[r], local_country(r))]
    /\ pc' = [pc EXCEPT ![r] = "done"]
    /\ UNCHANGED <<endpoint, body, country_name, question, facts, model_used,
                   invoked, fault, ollama, unitVars>>

health(r) ==
    /\ pc[r] = "validate" /\ endpoint[r] = "/health"
    /\ response' = [response EXCEPT ![r] = health_response]
    /\ pc' = [pc EXCEPT ![r] = "done"]
    /\ UNCHANGED <<endpoint, body, country_name, question, facts, model_used,
                   invoked, fault, ollama, unitVars>>

\* the response is sent and the invocation's locals are gone
close(r) ==
    /\ pc[r] = "done"
    /\ pc' = [pc EXCEPT ![r] = "idle"]
    /\ endpoint' = [endpoint EXCEPT ![r] = "none"]
    /\ body' = [body EXCEPT ![r] = JsonNull]
    /\ country_name' = [country_name EXCEPT ![r] = <<>>]
    /\ question' = [question EXCEPT ![r] = <<>>]
    /\ facts' = [facts EXCEPT ![r] = NoneNone]
    /\ model_used' = [model_used EXCEPT ![r] = "None"]
    /\ response' = [response EXCEPT ![r] = NoResponse]
    /\ invoked' = [invoked EXCEPT ![r] = <<>>]
    /\ fault' = [fault EXCEPT ![r] = FALSE]
    /\ UNCHANGED <<ollama, unitVars>>

Next ==
    \E r \in Requests :
        \/ receive(r)
        \/ generate_facts_start(r)
        \/ generate_facts_strategy(r)
        \/ generate_facts_finish(r)
        \/ chat_start(r)
        \/ chat_strategy(r)
        \/ chat_finish(r)
        \/ health(r)
        \/ close(r)

Spec == Init /\ [][Next]_vars

\* the unit level: the service stands idle while one function is called
FnInit ==
    /\ UnitInit
    /\ ServiceInit
    /\ ollama = [kind |-> "exception", status |-> 0, response |-> <<>>]

FnNext ==
    \/ call_parse_facts_from_response
    \/ call_generate_intelligent_facts
    \/ call_try_simple_chat
    \/ call_try_ollama_local

FnSpec == FnInit /\ [][FnNext]_vars

(***************************************************************************)
(* Properties of the functions, checked under FnSpec.                      *)
(***************************************************************************)
Returns(f) == fn = f /\ ret.called

\* non-empty, with no whitespace at either end
Trimmed(x) == x # <<>> /\ x[1] \notin Space /\ x[Len(x)] \notin Space

About(c) == <<"A","b","o","u","t"," ">> \o c

\* C1: for a non-empty text and a non-empty country name,
\* parse_facts_from_response returns exactly 3 facts, each with a title and
\* a content that are non-empty and have no leading or trailing whitespace.
C1_ThreeTrimmedFacts ==
    (Returns("parse_facts_from_response") /\ arg.text # <<>>
        /\ arg.country # <<>>)
    => /\ Len(ret.value) = 3
       /\ \A i \in 1..3 : /\ Trimmed(ret.value[i].title)
                          /\ Trimmed(ret.value[i].content)

\* the fact the claim C2 expects of an item: its whole title, and its
\* content with each newline replaced by a space
ExpectedFact(item) ==
    [title |-> item.title, content |-> replace_newlines(item.content)]

\* C2: for a text of numbered items '<n>. <title>: <content>', the result
\* holds, for each of the first 3 items in order, the fact with the item's
\* whole title and whole content (newlines as spaces), and with 3 items or
\* more no filler fact.
C2_NumberedItemsKeepTitleAndContent ==
    Returns("parse_facts_from_response")
    => \A items \in ItemLists(MaxItems) : \A sep \in Separators :
          arg.text = Render(items, sep, 1)
          => /\ \A i \in 1..Len(FirstThree(items)) :
                   ret.value[i] = ExpectedFact(items[i])
             /\ Len(items) >= 3
                => \A i \in 1..3 : ret.value[i].title # About(arg.country)

\* the matches of the list pattern the code goes by: numbered, else bullet
ListMatches(t) ==
    IF findall("numbered", t) # <<>> THEN findall("numbered", t)
    ELSE findall("bullet", t)

\* C10: the result is the facts the matching step produced, cut to the
\* first 3 and in their order, followed by fillers titled
\* 'About <countryName>' up to 3: 2 numbered facts give those 2 and 1
\* filler, k < 3 facts give those k and 3 - k fillers, and more than 3
\* matches give the first 3 matches.
C10_PaddingKeepsMatches ==
    Returns("parse_facts_from_response")
    => LET produced == matched_facts(arg.text)
           k == Len(produced)
           numbered == findall("numbered", arg.text)
           matches == ListMatches(arg.text)
       IN  /\ Len(ret.value) = 3
           /\ \A i \in 1..3 :
                 IF i <= k THEN ret.value[i] = produced[i]
                 ELSE ret.value[i] = filler_fact(arg.country)
           /\ Len(numbered) = 2
              => /\ ret.value[1] = fact_of_match(numbered[1])
                 /\ ret.value[2] = fact_of_match(numbered[2])
                 /\ ret.value[3].title = About(arg.country)
           /\ Len(matches) > 3
              => \A i \in 1..3 : ret.value[i] = fact_of_match(matches[i])

\* two numbered facts were matched and one filler was added after them
C10_Witness ==
    /\ Returns("parse_facts_from_response")
    /\ arg.text = TwoNumbered
    /\ Len(findall("numbered", arg.text)) = 2
    /\ ret.value[2].title = <<"H">>
    /\ ret.value[3].title = About(arg.country)

GenericTitles ==
    << <<"G","e","o","g","r","a","p","h","i","c"," ",
         "U","n","i","q","u","e","n","e","s","s">>,
       <<"C","u","l","t","u","r","a","l"," ","H","e","r","i","t","a","g","e">>,
       <<"G","l","o","b","a","l"," ",
         "C","o","n","t","r","i","b","u","t","i","o","n">> >>

\* C6: generate_intelligent_facts never returns None and always returns 3
\* facts labelled 'Enhanced Knowledge Base': the table's entry, unchanged,
\* when the lower-cased name is a key (so for 'Japan', 'JAPAN' and 'japan'),
\* and otherwise the 3 generic facts, titled as fixed and in that order, each
\* content holding the name as given.
C6_LookupAlwaysThreeFacts ==
    Returns("generate_intelligent_facts")
    => /\ ~ret.value.is_none
       /\ Len(ret.value.facts) = 3
       /\ ret.value.model_used = "Enhanced Knowledge Base"
       /\ arg.country \in {Japan, JAPAN, japan} => ret.value.facts = japan_facts
       /\ IF lower(arg.country) \in DOMAIN country_facts
          THEN ret.value.facts = country_facts[lower(arg.country)]
          ELSE \A i \in 1..3 :
                  /\ ret.value.facts[i].title = GenericTitles[i]
                  /\ Contains(ret.value.facts[i].content, arg.country)

\* the curated entry was returned for a name not in lower case
C6_Witness ==
    /\ Returns("generate_intelligent_facts")
    /\ arg.country = JAPAN
    /\ ret.value.facts = japan_facts

Keywords == <<kw_capital, kw_population, kw_language, kw_currency>>

\* the first keyword, in the fixed order, that the lower-cased question
\* holds, or 0
FirstKeyword(q) ==
    IF \E i \in 1..4 : Contains(lower(q), Keywords[i])
    THEN Min({i \in 1..4 : Contains(lower(q), Keywords[i])})
    ELSE 0

TopicDict(i) == IF i = 1 THEN capitals ELSE IF i = 3 THEN languages ELSE currencies

TokyoSentence ==
    <<"T","h","e"," ","c","a","p","i","t","a","l"," ","o","f"," ",
      "J","a","p","a","n"," ","i","s"," ","T","o","k","y","o",".">>

\* whether x begins with p and ends with q
Frames(x, p, q) ==
    /\ Len(x) >= Len(p) + Len(q)
    /\ SubSeq(x, 1, Len(p)) = p
    /\ SubSeq(x, Len(x) - Len(q) + 1, Len(x)) = q

\* C7: try_simple_chat always returns a non-empty text labelled 'Knowledge
\* Base', decided by the first keyword in the order capital, population,
\* language, currency that the lower-cased question holds: the topic's
\* sentence when the lower-cased country is in the topic's dictionary and the
\* generic sentence otherwise, the fixed non-answer for population, and the
\* generic sentence when no keyword occurs.
C7_ChatAnswersByFirstKeyword ==
    Returns("try_simple_chat")
    => LET k == FirstKeyword(arg.question)
           key == lower(arg.country)
           text == ret.value.text
       IN  /\ text # <<>>
           /\ ret.value.model_used = "Knowledge Base"
           /\ (arg.country = Japan /\ arg.question = QCapital)
              => text = TokyoSentence
           /\ k = 0 => text = generic_response(arg.country)
           /\ k = 2 => text = population_response(arg.country)
           /\ (k \in {1, 3, 4} /\ key \notin DOMAIN TopicDict(k))
              => text = generic_response(arg.country)
           /\ (k \in {1, 3, 4} /\ key \in DOMAIN TopicDict(k))
              => /\ text # generic_response(arg.country)
                 /\ Frames(text, <<"T","h","e"," ">>,
                           TopicDict(k)[key] \o <<".">>)
                 /\ Contains(text, Keywords[k] \o <<" ">>)
                 /\ Contains(text, <<" ">> \o arg.country \o <<" ","i","s"," ">>)

\* a question with two keywords was answered by the first in the order,
\* from its dictionary
C7_Witness ==
    /\ Returns("try_simple_chat")
    /\ arg.question = QCapitalCurrency
    /\ arg.country = Brazil
    /\ Frames(ret.value.text, <<"T","h","e"," ","c","a","p","i","t","a","l">>,
              capitals[lower(Brazil)] \o <<".">>)

(***************************************************************************)
(* Properties of the service, checked under Spec.                          *)
(***************************************************************************)
Range(f) == {f[i] : i \in DOMAIN f}

Done(r, e) == pc[r] = "done" /\ endpoint[r] = e

\* the body is an object whose key holds a string that is not blank
ValidField(b, key) ==
    /\ b.t = "dict"
    /\ key \in DOMAIN b.v
    /\ b.v[key].t = "str"
    /\ strip(b.v[key].v) # <<>>

\* the body is JSON and the key is missing from it, or holds a blank string
MissingOrBlank(b, key) ==
    \/ b.t = "null"
    \/ /\ b.t = "dict"
       /\ \/ key \notin DOMAIN b.v
          \/ b.v[key].t = "str" /\ strip(b.v[key].v) = <<>>

WellFormedFact(f) ==
    /\ DOMAIN f = {"title", "content"}
    /\ f.title # <<>>
    /\ f.content # <<>>

ThreeFacts(payload) ==
    /\ "facts" \in DOMAIN payload
    /\ Len(payload.facts) = 3
    /\ \A i \in 1..3 : WellFormedFact(payload.facts[i])

ErrorPayload(payload) == DOMAIN payload = {"error"}

ModelLabels ==
    {"Enhanced Knowledge Base", "Llama 2 (Ollama)", "Fallback System"}

\* C3: a POST /generate-facts whose country is a string that is not blank
\* after trimming is answered 200 with exactly 3 facts and a model_used
\* label, whatever the local model endpoint does and also when the strategy
\* fails.
C3_ValidCountryGetsThreeFacts ==
    \A r \in Requests :
        (Done(r, "/generate-facts") /\ ValidField(body[r], "country"))
        => /\ response[r].status = 200
           /\ ThreeFacts(response[r].payload)
           /\ "model_used" \in DOMAIN response[r].payload
           /\ response[r].payload.model_used \in ModelLabels

\* a valid request was answered with 3 facts while the local model endpoint
\* was unreachable
C3_Witness ==
    \E r \in Requests :
        /\ Done(r, "/generate-facts")
        /\ ValidField(body[r], "country")
        /\ ollama.kind = "exception"
        /\ response[r].status = 200
        /\ Len(response[r].payload.facts) = 3

RequiredFields(e) ==
    IF e = "/chat" THEN {"country", "question"} ELSE {"country"}

\* C4: a POST /generate-facts or POST /chat with a required field missing
\* or blank after trimming is answered 400 with an error payload, and no
\* strategy function is invoked for it.
C4_MissingFieldIsClientError ==
    \A r \in Requests :
        (/\ pc[r] = "done"
         /\ endpoint[r] \in {"/generate-facts", "/chat"}
         /\ \E key \in RequiredFields(endpoint[r]) :
               MissingOrBlank(body[r], key))
        => /\ response[r].status = 400
           /\ ErrorPayload(response[r].payload)
           /\ invoked[r] = <<>>

\* C5: a POST /generate-facts ends in a 200 response with exactly 3
\* well-formed facts, a 400 response with an error payload or a 500 response
\* with an error payload, whatever its body and also when a collaborator
\* raises; it never ends without a response.
C5_ThreeOutcomes ==
    \A r \in Requests :
        Done(r, "/generate-facts")
        => /\ response[r].status \in {200, 400, 500}
           /\ response[r].status = 200 => ThreeFacts(response[r].payload)
           /\ response[r].status \in {400, 500}
              => ErrorPayload(response[r].payload)

\* a request whose body is no JSON ended in a 500 response, and one whose
\* strategy raised ended in a 200 response
C5_Witness ==
    \E r, o \in Requests :
        /\ Done(r, "/generate-facts") /\ body[r] = Malformed
        /\ response[r].status = 500
        /\ Done(o, "/generate-facts") /\ fault[o]
        /\ response[o].status = 200

\* the response to a request that runs alone, no collaborator failing
Alone(e, b) ==
    IF e = "/health" THEN health_response
    ELSE IF e = "/generate-facts"
    THEN IF generate_facts_validate(b) # NoResponse
         THEN generate_facts_validate(b)
         ELSE generate_facts_respond(
                  generate_intelligent_facts(field(b, "country")),
                  field(b, "country"))
    ELSE IF chat_validate(b) # NoResponse
         THEN chat_validate(b)
         ELSE chat_respond(
                  try_simple_chat(field(b, "country"), field(b, "question")),
                  field(b, "country"))

\* C8: in every interleaving of requests, the response to a request whose
\* collaborators did not fail is the response its body alone determines,
\* whatever the other requests are and wherever they stand.
C8_ResponseFromBodyAlone ==
    \A r \in Requests :
        (pc[r] = "done" /\ ~fault[r])
        => response[r] = Alone(endpoint[r], body[r])

\* a request was answered while another one, about another country, stood
\* between its strategy call and its response
C8_Witness ==
    \E r, o \in Requests :
        /\ r # o
        /\ pc[r] = "done" /\ ~fault[r] /\ response[r].status = 200
        /\ endpoint[r] \in {"/generate-facts", "/chat"}
        /\ pc[o] \in {"generate", "respond"}
        /\ country_name[o] # country_name[r]

\* C9: for a valid /generate-facts request the local model is called first,
\* then the knowledge base, then the fallback: when the local endpoint
\* answers 200 with a text, the facts are the extractor's output for that
\* text and the knowledge base is not consulted; otherwise the knowledge
\* base's facts are returned.
C9_LocalModelFirst ==
    \A r \in Requests :
        (/\ Done(r, "/generate-facts")
         /\ ValidField(body[r], "country")
         /\ ~fault[r])
        => /\ invoked[r] # <<>>
           /\ "try_ollama_local" \in Range(invoked[r])
           /\ IF ~try_ollama_local(country_name[r], ollama).is_none
              THEN /\ response[r].payload.facts =
                         parse_facts_from_response(ollama.response,
                                                   country_name[r])
                   /\ response[r].payload.model_used = "Llama 2 (Ollama)"
                   /\ "generate_intelligent_facts" \notin Range(invoked[r])
              ELSE response[r].payload.facts =
                      generate_intelligent_facts(country_name[r]).facts

(***************************************************************************)
(* The sentence-split fallback, checked under FnSpec.                      *)
(***************************************************************************)
\* the fragments the claim C11 keeps: those of 20 characters or more after
\* trimming, trimmed and in order
FragmentsOfTwentyOrMore(t) ==
    StripAll(SelectSeq(split_sentences(t),
                       LAMBDA s : Len(strip(s)) >= MinSentenceLen))

InterestingFact(i) ==
    <<"I","n","t","e","r","e","s","t","i","n","g"," ","F","a","c","t"," ">>
    \o <<DigitOf(i)>>

\* C11: the sentence split runs only when neither the numbered nor the
\* bullet pattern matches; it splits the text on runs of '.', '!' or '?',
\* keeps exactly the fragments of 20 characters or more after trimming, and
\* makes of the first 3 kept, in order, the facts 'Interesting Fact 1' to
\* 'Interesting Fact 3' whose content is the fragment ending in one period;
\* when every fragment is under 20 characters and the country is 'France',
\* the result is 3 facts titled 'About France'.
C11_SentenceFallback ==
    Returns("parse_facts_from_response")
    => LET matches == ListMatches(arg.text)
           kept == FragmentsOfTwentyOrMore(arg.text)
       IN  /\ matches # <<>>
              => \A i \in 1..3 :
                    IF i <= Len(matches)
                    THEN ret.value[i] = fact_of_match(matches[i])
                    ELSE ret.value[i] = filler_fact(arg.country)
           /\ matches = <<>>
              => \A i \in 1..3 :
                    IF i <= Len(kept)
                    THEN /\ ret.value[i].title = InterestingFact(i)
                         /\ ret.value[i].content = kept[i] \o <<".">>
                         /\ kept[i][Len(kept[i])] # "."
                    ELSE ret.value[i].title = About(arg.country)
           /\ (matches = <<>> /\ kept = <<>> /\ arg.country = France)
              => \A i \in 1..3 : ret.value[i].title = About(France)

=============================================================================
